---- MODULE Spec2Model ----
(***************************************************************************)
(* Model of WizeService, the active-provider registry of the Wize viewlet  *)
(* (src/vs/workbench/parts/wize/electron-browser/wizeEditor.ts, second     *)
(* half of the file: class WizeService).                                   *)
(*                                                                         *)
(* The service keeps a list of registered providers (newest first), one    *)
(* active provider, the 'wize.provider' context key and an emitter that    *)
(* fires on every assignment to activeProvider.  registerWizeProvider      *)
(* returns a disposable; the model keeps every disposable ever returned so *)
(* that it can be invoked at any later time, any number of times.          *)
(***************************************************************************)
EXTENDS Integers, Sequences, FiniteSets, TLC

\* ---------------------------------------------------------------- bounds
\* Number of distinct provider objects the environment may hand in.
NumProviders == 3

\* Number of registerWizeProvider calls (= disposables returned) in a run.
MaxHandles == 3

\* ------------------------------------------------------------ the values
\* `undefined`: the value of _activeProvider before any assignment and of
\* this._providers[0] on an empty array.
Undefined == 0

Providers == 1 .. NumProviders

\* void 0 as the value of the 'wize.provider' context key.
NoKey == "undefined"

\* The outcome of a call that returns normally.
NoError == "none"

\* The messages of the two errors the setter throws.
InvalidProvider == "invalid provider"

UnregisteredProvider == "Provider not registered"

\* provider.id: the identifier the provider object carries.  Identifiers
\* are not validated for uniqueness, so two provider objects may share one.
ProviderId(p) ==
    IF p % 2 = 1 THEN "git" ELSE "svn"

\* ------------------------------------------------------- array helpers
\* Array.prototype.indexOf: 0-based index of the first element identical
\* to p, or -1.
RECURSIVE IndexOfFrom(_, _, _)
IndexOfFrom(arr, p, i) ==
    IF i > Len(arr) THEN -1
    ELSE IF arr[i] = p THEN i - 1
    ELSE IndexOfFrom(arr, p, i + 1)

IndexOf(arr, p) ==
    IndexOfFrom(arr, p, 1)

\* Array.prototype.splice(index, 1) for a valid 0-based index.
Splice(arr, index) ==
    SubSeq(arr, 1, index) \o SubSeq(arr, index + 2, Len(arr))

\* A plausible slip: read the back of the array instead of the front.
FrontAsBack(arr) ==
    IF Len(arr) = 0 THEN Undefined ELSE arr[Len(arr)]

\* this._providers[0]: the front element, undefined on an empty array.
Front(arr) ==
    IF Len(arr) = 0 THEN Undefined ELSE arr[1]

\* ------------------------------------------------------------- the state
VARIABLES
    providers,        \* _providers: sequence of provider objects
    activeProvider,   \* _activeProvider
    contextKey,       \* value held by activeProviderContextKey
    emitted,          \* payloads fired by _onDidChangeProvider in the last call
    handles,          \* the disposables returned so far
    last,             \* the last call: what it was, how it ended, the state before
    seen,             \* the service fields a listener reads at each fire of the last call
    lastReceived,     \* what a subscriber of onDidChangeProvider got last, if anything
    listeners,        \* the listeners of onDidChangeProvider, in subscription order
    dispatches,       \* per fire of the last call: who was subscribed, called, left
    viewlet,          \* the WizeViewlet: phase, provider subscription, list shown
    returned,         \* the array a caller got from the providers getter and changed
    preview           \* WizePreview in its window: the stored flag, _enabled, the last run

serviceVars == <<providers, activeProvider, contextKey, emitted, handles, last,
                 seen, lastReceived, listeners, dispatches, viewlet, returned>>

vars == <<serviceVars, preview>>

\* The service fields as one record, for the operators below.
State(provs, act, key) ==
    [providers |-> provs, activeProvider |-> act, contextKey |-> key]

Current ==
    State(providers, activeProvider, contextKey)

\* An outcome: the fields after the call, the error thrown (or none), the
\* payloads fired during the call and the fields as they stood at each fire.
OutcomeAt(s, err, fired, sn) ==
    [state |-> s, error |-> err, fired |-> fired, seen |-> sn]

\* An outcome whose fires, if any, all happen after the last write.
Outcome(s, err, fired) ==
    OutcomeAt(s, err, fired, [i \in 1 .. Len(fired) |-> s])

\* ------------------------------------------------------------ the setter
\* Slips of the setter used to test the claims about it.
SetterNoRegisteredCheck(s, provider) ==
    IF provider = Undefined
    THEN Outcome(s, InvalidProvider, <<>>)
    ELSE Outcome(State(s.providers, provider, ProviderId(provider)),
                 NoError, <<provider>>)

SetterAcceptsUndefined(s, provider) ==
    IF provider # Undefined /\ IndexOf(s.providers, provider) = -1
    THEN Outcome(s, UnregisteredProvider, <<>>)
    ELSE Outcome(State(s.providers, provider,
                       IF provider # Undefined THEN ProviderId(provider) ELSE NoKey),
                 NoError, <<provider>>)

SetterShortCircuit(s, provider) ==
    IF provider = Undefined
    THEN Outcome(s, InvalidProvider, <<>>)
    ELSE IF IndexOf(s.providers, provider) = -1
    THEN Outcome(s, UnregisteredProvider, <<>>)
    ELSE IF provider = s.activeProvider
    THEN Outcome(s, NoError, <<>>)
    ELSE Outcome(State(s.providers, provider, ProviderId(provider)),
                 NoError, <<provider>>)

SetterKeepsKey(s, provider) ==
    IF provider = Undefined
    THEN Outcome(s, InvalidProvider, <<>>)
    ELSE IF IndexOf(s.providers, provider) = -1
    THEN Outcome(s, UnregisteredProvider, <<>>)
    ELSE Outcome(State(s.providers, provider, s.contextKey),
                 NoError, <<provider>>)

\* A slip: the emitter fires before the field and the key are written.
SetterFiresFirst(s, provider) ==
    IF provider = Undefined
    THEN Outcome(s, InvalidProvider, <<>>)
    ELSE IF IndexOf(s.providers, provider) = -1
    THEN Outcome(s, UnregisteredProvider, <<>>)
    ELSE OutcomeAt(State(s.providers, provider, ProviderId(provider)),
                   NoError, <<provider>>, <<s>>)

\* set activeProvider(provider): both checks throw before anything is
\* written; otherwise the field is written, then the context key, and then
\* the emitter fires, so a listener reads the fields as already written.
SetActiveProvider(s, provider) ==
    IF provider = Undefined
    THEN Outcome(s, InvalidProvider, <<>>)
    ELSE IF provider # Undefined /\ IndexOf(s.providers, provider) = -1
    THEN Outcome(s, UnregisteredProvider, <<>>)
    ELSE LET s1 == [s EXCEPT !.activeProvider = provider]
             s2 == [s1 EXCEPT !.contextKey =
                        IF provider # Undefined THEN ProviderId(provider) ELSE NoKey]
         IN  OutcomeAt(s2, NoError, <<provider>>, <<s2>>)

\* ------------------------------------------------------ registration
\* A slip: the first provider is not made active.
RegisterNoActivate(s, provider) ==
    Outcome(State(<<provider>> \o s.providers, s.activeProvider, s.contextKey),
            NoError, <<>>)

\* A slip: the provider is pushed to the back of the list.
RegisterAppends(s, provider) ==
    LET provs == s.providers \o <<provider>>
        s1    == State(provs, s.activeProvider, s.contextKey)
    IN  IF Len(provs) = 1
        THEN SetActiveProvider(s1, provider)
        ELSE Outcome(s1, NoError, <<>>)

\* registerWizeProvider up to the return: prepend, and make the provider
\* active when it is the only one.
RegisterWizeProvider(s, provider) ==
    LET provs == <<provider>> \o s.providers
        s1    == State(provs, s.activeProvider, s.contextKey)
    IN  IF Len(provs) = 1
        THEN SetActiveProvider(s1, provider)
        ELSE Outcome(s1, NoError, <<>>)

\* A slip: the active provider is re-elected on every removal.
DisposeAlwaysReelects(s, provider) ==
    LET index == IndexOf(s.providers, provider)
    IN  IF index < 0
        THEN Outcome(s, NoError, <<>>)
        ELSE LET provs == Splice(s.providers, index)
                 s1    == State(provs, s.activeProvider, s.contextKey)
             IN  SetActiveProvider(s1, Front(provs))

\* A slip: the re-election writes the field directly, past the setter.
DisposeWritesField(s, provider) ==
    LET index == IndexOf(s.providers, provider)
    IN  IF index < 0
        THEN Outcome(s, NoError, <<>>)
        ELSE LET provs == Splice(s.providers, index)
             IN  IF s.activeProvider = provider
                 THEN Outcome(State(provs, Front(provs), s.contextKey), NoError, <<>>)
                 ELSE Outcome(State(provs, s.activeProvider, s.contextKey),
                              NoError, <<>>)

\* The body of the disposable returned by registerWizeProvider(provider).
\* The splice happens before the setter runs, so an error thrown by the
\* setter leaves the shortened list behind.
DisposeRegistration(s, provider) ==
    LET index == IndexOf(s.providers, provider)
    IN  IF index < 0
        THEN Outcome(s, NoError, <<>>)
        ELSE LET provs == Splice(s.providers, index)
                 s1    == State(provs, s.activeProvider, s.contextKey)
             IN  IF s.activeProvider = provider
                 THEN SetActiveProvider(s1, Front(provs))
                 ELSE Outcome(s1, NoError, <<>>)

\* ------------------------------------------------------ the providers getter
\* A slip: the getter hands out the internal array itself.
ProvidersGetterAliased(s) ==
    [items |-> s.providers, aliased |-> TRUE]

\* get providers(): a new array holding the elements of _providers.
ProvidersGetter(s) ==
    [items |-> s.providers, aliased |-> FALSE]

\* What a caller may do to an array it holds: push an element, shift the
\* first one out, or reverse it in place.
Mutations ==
    [kind : {"push"}, provider : Providers]
        \cup [kind : {"shift", "reverse"}, provider : {Undefined}]

RECURSIVE Reverse(_)
Reverse(arr) ==
    IF arr = <<>> THEN <<>> ELSE Reverse(Tail(arr)) \o <<Head(arr)>>

Mutation(arr, m) ==
    IF m.kind = "push" THEN Append(arr, m.provider)
    ELSE IF m.kind = "shift" THEN (IF arr = <<>> THEN arr ELSE Tail(arr))
    ELSE Reverse(arr)

\* ------------------------------------------------------------ the emitter
\* Listeners of onDidChangeProvider: the viewlet, and subscribers that may
\* unsubscribe themselves or one another from inside their callback.
NumSubscribers == 3

Subscribers == 1 .. NumSubscribers

Viewlet == 0

\* What each subscriber's callback unsubscribes when called: a subscriber,
\* or nobody.
NoOne == 0 - 1

Plans == [Subscribers -> Subscribers \cup {NoOne}]

NoPlan == [l \in Subscribers |-> NoOne]

\* Disposing a subscription: the listener leaves the list, once.
Unsubscribed(lst, l) ==
    SelectSeq(lst, LAMBDA x : x # l)

\* A slip: the emitter walks the live list by index while callbacks edit it.
RECURSIVE FireLiveFrom(_, _, _)
FireLiveFrom(i, live, plan) ==
    IF i > Len(live) THEN [called |-> <<>>, listeners |-> live]
    ELSE LET l     == live[i]
             live1 == IF l = Viewlet THEN live ELSE Unsubscribed(live, plan[l])
             rest  == FireLiveFrom(i + 1, live1, plan)
         IN  [called |-> <<l>> \o rest.called, listeners |-> rest.listeners]

FireLive(lst, plan) ==
    FireLiveFrom(1, lst, plan)

\* Emitter.fire: the listeners subscribed when the dispatch begins are
\* called one after the other in subscription order, whatever the callbacks
\* do to the list meanwhile.
RECURSIVE FireFrom(_, _, _, _)
FireFrom(snapshot, i, live, plan) ==
    IF i > Len(snapshot) THEN [called |-> <<>>, listeners |-> live]
    ELSE LET l     == snapshot[i]
             live1 == IF l = Viewlet THEN live ELSE Unsubscribed(live, plan[l])
             rest  == FireFrom(snapshot, i + 1, live1, plan)
         IN  [called |-> <<l>> \o rest.called, listeners |-> rest.listeners]

Fire(lst, plan) ==
    FireFrom(lst, 1, lst, plan)

\* ------------------------------------------------------------ the viewlet
\* The viewlet before create(): no provider subscription (EmptyDisposable),
\* nothing listed.
NewViewlet ==
    [phase |-> "new", providerChangeDisposable |-> Undefined,
     subscriptions |-> <<>>, list |-> Undefined, updates |-> 0]

\* disposable.dispose() of a provider subscription: one subscription to that
\* provider ends; EmptyDisposable does nothing.
RECURSIVE RemoveOne(_, _)
RemoveOne(arr, p) ==
    IF arr = <<>> THEN <<>>
    ELSE IF Head(arr) = p THEN Tail(arr)
    ELSE <<Head(arr)>> \o RemoveOne(Tail(arr), p)

\* WizeViewlet.update: the list shows the resources of the provider the
\* service reports as active, or nothing.
ViewletUpdate(v, s) ==
    [v EXCEPT !.list = s.activeProvider, !.updates = @ + 1]

\* WizeViewlet.setActiveProvider(activeProvider), run with the service in
\* state s: drop the old provider subscription, subscribe to the new
\* provider if there is one, update.
ViewletSetActiveProvider(v, activeProv, s) ==
    LET subs1 == RemoveOne(v.subscriptions, v.providerChangeDisposable)
        v1    == IF activeProv # Undefined
                 THEN [v EXCEPT !.providerChangeDisposable = activeProv,
                                !.subscriptions = Append(subs1, activeProv)]
                 ELSE [v EXCEPT !.providerChangeDisposable = Undefined,
                                !.subscriptions = subs1]
    IN  ViewletUpdate(v1, s)

\* The payloads fired by a call, handed to the listeners one fire after the
\* other: per fire, who was subscribed, who was called, who is left.
RECURSIVE DispatchFrom(_, _, _, _, _, _)
DispatchFrom(i, fired, sn, lst, v, plan) ==
    IF i > Len(fired)
    THEN [listeners |-> lst, viewlet |-> v, dispatches |-> <<>>]
    ELSE LET f    == Fire(lst, plan)
             v1   == IF Viewlet \in { f.called[k] : k \in 1 .. Len(f.called) }
                     THEN ViewletSetActiveProvider(v, fired[i], sn[i])
                     ELSE v
             rest == DispatchFrom(i + 1, fired, sn, f.listeners, v1, plan)
         IN  [listeners |-> rest.listeners, viewlet |-> rest.viewlet,
              dispatches |-> <<[began |-> lst, called |-> f.called,
                                ended |-> f.listeners]>> \o rest.dispatches]

\* ------------------------------------------------------------ WizePreview
\* Number of window reloads followed in a run.
MaxReloads == 3

\* localStorage.getItem on a key never written: null.
NoItem == "null"

\* What may be stored under 'enablePreviewWize' when a window loads: nothing,
\* what the setter writes, or a string written by something else.
StoredItems == {NoItem, "true", "false", "yes"}

\* No action has run in this window yet.
NoRun ==
    [action |-> "none", confirmed |-> FALSE, effects |-> <<>>,
     item |-> NoItem, enabled |-> FALSE, pending |-> FALSE]

\* The static initialiser of WizePreview, run when the window loads with
\* item stored: _enabled is computed once, from the stored string.
LoadWindow(item, n) ==
    [item |-> item, enabled |-> (item = "true"), itemAtLoad |-> item,
     pending |-> FALSE, loads |-> n, run |-> NoRun]

\* static get enabled.
GetEnabled(w) ==
    w.enabled

\* A slip: the setter also refreshes the value the getter returns.
SetEnabledRefreshes(w, enabled) ==
    [w EXCEPT !.item = IF enabled THEN "true" ELSE "false", !.enabled = enabled]

\* static set enabled: only the stored string is written.
SetEnabled(w, enabled) ==
    [w EXCEPT !.item = IF enabled THEN "true" ELSE "false"]

\* The record of a run: which action, the answer to the confirmation, what it
\* did in order, and the window as it was before.
Ran(w, action, confirmed, effects) ==
    [action |-> action, confirmed |-> confirmed, effects |-> effects,
     item |-> w.item, enabled |-> GetEnabled(w), pending |-> w.pending]

\* EnableWizePreviewAction.run: return when the confirmation is declined;
\* otherwise store 'true', then ask for a window reload.
EnableWizePreviewRun(w, confirmed) ==
    IF ~confirmed
    THEN [w EXCEPT !.run = Ran(w, "enable", confirmed, <<>>)]
    ELSE [SetEnabled(w, TRUE) EXCEPT
              !.pending = TRUE,
              !.run = Ran(w, "enable", confirmed, <<"setItem", "reloadWindow">>)]

\* DisableWizePreviewAction.run: the same, storing 'false'.
DisableWizePreviewRun(w, confirmed) ==
    IF ~confirmed
    THEN [w EXCEPT !.run = Ran(w, "disable", confirmed, <<>>)]
    ELSE [SetEnabled(w, FALSE) EXCEPT
              !.pending = TRUE,
              !.run = Ran(w, "disable", confirmed, <<"setItem", "reloadWindow">>)]

\* ------------------------------------------------------------- behaviour
\* The record of a call.
Call(op, provider, handle, again, err) ==
    [op |-> op, provider |-> provider, handle |-> handle, again |-> again,
     error |-> err, pre |-> Current]

\* A subscriber of onDidChangeProvider is handed every payload fired, in the
\* order fired; it keeps the last one.
Receive(r, fired) ==
    IF fired = <<>> THEN r
    ELSE [any |-> TRUE, payload |-> fired[Len(fired)]]

\* Write an outcome into the service fields and hand the payloads out.
Apply(o, plan) ==
    LET d == DispatchFrom(1, o.fired, o.seen, listeners,
                          [viewlet EXCEPT !.updates = 0], plan)
    IN  /\ providers' = o.state.providers
        /\ activeProvider' = o.state.activeProvider
        /\ contextKey' = o.state.contextKey
        /\ emitted' = o.fired
        /\ seen' = o.seen
        /\ lastReceived' = Receive(lastReceived, o.fired)
        /\ listeners' = d.listeners
        /\ viewlet' = d.viewlet
        /\ dispatches' = d.dispatches
        /\ returned' = <<>>
        /\ UNCHANGED preview

\* A step that is no call on the service: nothing is fired.
NoCall ==
    /\ emitted' = <<>>
    /\ seen' = <<>>
    /\ dispatches' = <<>>
    /\ UNCHANGED <<handles, lastReceived, preview>>

\* After construction: no providers, nothing active, key created with void 0.
InitService ==
    /\ providers = <<>>
    /\ activeProvider = Undefined
    /\ contextKey = NoKey
    /\ emitted = <<>>
    /\ handles = <<>>
    /\ seen = <<>>
    /\ lastReceived = [any |-> FALSE, payload |-> Undefined]
    /\ listeners = <<>>
    /\ dispatches = <<>>
    /\ viewlet = NewViewlet
    /\ returned = <<>>
    /\ last = [op |-> "init", provider |-> Undefined, handle |-> 0,
               again |-> FALSE, error |-> NoError,
               pre |-> State(<<>>, Undefined, NoKey)]

\* The service in a window loaded with nothing stored under the flag's key.
Init ==
    /\ InitService
    /\ preview = LoadWindow(NoItem, 0)

\* wizeService.registerWizeProvider(p) for a non-null provider object, the
\* subscribers' callbacks behaving as in plan.
RegisterWith(p, plan, max) ==
    /\ Len(handles) < max
    /\ LET o == RegisterWizeProvider(Current, p)
       IN  /\ Apply(o, plan)
           /\ handles' = IF o.error = NoError
                         THEN Append(handles, [provider |-> p, invoked |-> FALSE])
                         ELSE handles
           /\ last' = Call("register", p, Len(handles) + 1, FALSE, o.error)

Register(p) ==
    RegisterWith(p, NoPlan, MaxHandles)

\* handle.dispose() on the h-th disposable returned, invoked or not before.
DisposeWith(h, plan) ==
    /\ h \in 1 .. Len(handles)
    /\ LET o == DisposeRegistration(Current, handles[h].provider)
       IN  /\ Apply(o, plan)
           /\ handles' = [handles EXCEPT ![h].invoked = TRUE]
           /\ last' = Call("release", handles[h].provider, h,
                           handles[h].invoked, o.error)

Dispose(h) ==
    DisposeWith(h, NoPlan)

\* wizeService.activeProvider = p, with p any provider object or undefined.
SetActiveWith(p, plan) ==
    /\ UNCHANGED handles
    /\ LET o == SetActiveProvider(Current, p)
       IN  /\ Apply(o, plan)
           /\ last' = Call("setActive", p, 0, FALSE, o.error)

SetActive(p) ==
    SetActiveWith(p, NoPlan)

\* A caller reads wizeService.providers and changes the array it got.
GetAndMutate(m) ==
    /\ UNCHANGED <<activeProvider, contextKey, listeners, viewlet>>
    /\ NoCall
    /\ last' = Call("mutate", m.provider, 0, FALSE, NoError)
    /\ LET r       == ProvidersGetter(Current)
           mutated == Mutation(r.items, m)
       IN  /\ returned' = mutated
           /\ providers' = IF r.aliased THEN mutated ELSE providers

\* WizeViewlet.create: show the provider active now, then listen to the
\* service for changes.
ViewletCreate ==
    /\ viewlet.phase = "new"
    /\ viewlet' = [ViewletSetActiveProvider([viewlet EXCEPT !.updates = 0],
                                            activeProvider, Current)
                       EXCEPT !.phase = "live"]
    /\ listeners' = Append(listeners, Viewlet)
    /\ returned' = <<>>
    /\ UNCHANGED <<providers, activeProvider, contextKey>>
    /\ NoCall
    /\ last' = Call("create", Undefined, 0, FALSE, NoError)

\* WizeViewlet.dispose: the entries of this.disposables are disposed, the
\* subscription to the service among them; providerChangeDisposable is not
\* one of them.
ViewletDispose ==
    /\ viewlet.phase = "live"
    /\ viewlet' = [viewlet EXCEPT !.phase = "disposed", !.updates = 0]
    /\ listeners' = Unsubscribed(listeners, Viewlet)
    /\ returned' = <<>>
    /\ UNCHANGED <<providers, activeProvider, contextKey>>
    /\ NoCall
    /\ last' = Call("viewletDispose", Undefined, 0, FALSE, NoError)

\* Provider p fires its own onDidChange: update runs once per subscription
\* the viewlet holds to p.  Before create() the viewlet holds none.
RECURSIVE UpdateTimes(_, _, _)
UpdateTimes(v, s, n) ==
    IF n = 0 THEN v ELSE UpdateTimes(ViewletUpdate(v, s), s, n - 1)

ProviderChanged(p) ==
    /\ viewlet.phase # "new"
    /\ viewlet' = UpdateTimes([viewlet EXCEPT !.updates = 0], Current,
                              Len(SelectSeq(viewlet.subscriptions,
                                            LAMBDA x : x = p)))
    /\ returned' = <<>>
    /\ UNCHANGED <<providers, activeProvider, contextKey, listeners>>
    /\ NoCall
    /\ last' = Call("providerChange", p, 0, FALSE, NoError)

\* The service and its callers.
Next ==
    \/ \E p \in Providers : Register(p)
    \/ \E h \in 1 .. MaxHandles : Dispose(h)
    \/ \E p \in Providers \cup {Undefined} : SetActive(p)
    \/ \E m \in Mutations : GetAndMutate(m)

Spec == Init /\ [][Next]_vars

\* ------------------------------------------- the service with the viewlet
\* Number of registerWizeProvider calls in a run with the viewlet.
MaxViewletHandles == 2

RegisterBeside(p) ==
    RegisterWith(p, NoPlan, MaxViewletHandles)

NextViewlet ==
    \/ \E p \in Providers : RegisterBeside(p)
    \/ \E h \in 1 .. MaxViewletHandles : Dispose(h)
    \/ \E p \in Providers \cup {Undefined} : SetActive(p)
    \/ ViewletCreate
    \/ ViewletDispose
    \/ \E p \in Providers : ProviderChanged(p)

SpecViewlet == Init /\ [][NextViewlet]_vars

\* --------------------------------------------- the emitter on its own
\* The service with subscribers that come, go, and unsubscribe from inside
\* their callbacks; the viewlet is not created here.
MaxEmitterHandles == 1

Range(arr) == { arr[i] : i \in 1 .. Len(arr) }

\* The callbacks' behaviours tried for a dispatch to the listeners lst: at
\* most one listener unsubscribes somebody, itself or another listener.
PlansFor(o, lst) ==
    IF o.fired = <<>> THEN {NoPlan}
    ELSE {NoPlan} \cup { [NoPlan EXCEPT ![w] = t] : w \in Range(lst), t \in Range(lst) }

\* onDidChangeProvider(listener): the listener joins at the end of the list.
Subscribe(l) ==
    /\ l \notin Range(listeners)
    /\ listeners' = Append(listeners, l)
    /\ UNCHANGED <<providers, activeProvider, contextKey, viewlet, returned>>
    /\ NoCall
    /\ last' = Call("subscribe", Undefined, l, FALSE, NoError)

\* Disposing a subscription outside any dispatch.
Unsubscribe(l) ==
    /\ l \in Range(listeners)
    /\ listeners' = Unsubscribed(listeners, l)
    /\ UNCHANGED <<providers, activeProvider, contextKey, viewlet, returned>>
    /\ NoCall
    /\ last' = Call("unsubscribe", Undefined, l, FALSE, NoError)

NotifyingRegister(p) ==
    \E plan \in PlansFor(RegisterWizeProvider(Current, p), listeners) :
        RegisterWith(p, plan, MaxEmitterHandles)

NotifyingDispose(h) ==
    /\ h \in 1 .. Len(handles)
    /\ \E plan \in PlansFor(DisposeRegistration(Current, handles[h].provider),
                            listeners) :
           DisposeWith(h, plan)

NotifyingSetActive(p) ==
    \E plan \in PlansFor(SetActiveProvider(Current, p), listeners) :
        SetActiveWith(p, plan)

NextEmitter ==
    \/ \E l \in Subscribers : Subscribe(l)
    \/ \E l \in Subscribers : Unsubscribe(l)
    \/ \E p \in Providers : NotifyingRegister(p)
    \/ \E h \in 1 .. MaxEmitterHandles : NotifyingDispose(h)
    \/ \E p \in Providers \cup {Undefined} : NotifyingSetActive(p)

SpecEmitter == Init /\ [][NextEmitter]_vars

\* ------------------------------------------- the preview switch on its own
\* A window loaded with whatever is stored.
InitPreview ==
    /\ InitService
    /\ \E item \in StoredItems : preview = LoadWindow(item, 0)

\* The user runs 'Enable Preview Wize' and answers the confirmation.
RunEnable(confirmed) ==
    /\ preview' = EnableWizePreviewRun(preview, confirmed)
    /\ UNCHANGED serviceVars

\* The user runs 'Disable Preview Wize' and answers the confirmation.
RunDisable(confirmed) ==
    /\ preview' = DisableWizePreviewRun(preview, confirmed)
    /\ UNCHANGED serviceVars

\* A requested reload takes place: the window loads anew with what is
\* stored now.
ReloadWindow ==
    /\ preview.pending
    /\ preview.loads < MaxReloads
    /\ preview' = LoadWindow(preview.item, preview.loads + 1)
    /\ UNCHANGED serviceVars

NextPreview ==
    \/ \E confirmed \in BOOLEAN : RunEnable(confirmed)
    \/ \E confirmed \in BOOLEAN : RunDisable(confirmed)
    \/ ReloadWindow

SpecPreview == InitPreview /\ [][NextPreview]_vars

\* ------------------------------------------------------------ vocabulary

\* The service fields are exactly as they were before the last call.
StateUnchanged == Current = last.pre

\* The last call was an invocation of a release handle whose provider was
\* in the list when the call began.
ReleasedRegistered ==
    /\ last.op = "release"
    /\ IndexOf(last.pre.providers, last.provider) >= 0

\* ... and that provider was the active one.
ReleasedActive ==
    /\ ReleasedRegistered
    /\ last.pre.activeProvider = last.provider

\* The last call was an invocation of a release handle whose provider was
\* in the list but was not the active one.
ReleasedInactive ==
    /\ ReleasedRegistered
    /\ last.pre.activeProvider # last.provider

\* The list the release handle leaves: the first entry of its provider gone.
Remaining ==
    Splice(last.pre.providers, IndexOf(last.pre.providers, last.provider))

\* ---------------------------------------------------------------- claims

\* C1 (as stated): in every reachable state activeProvider is unset or an
\* element of the providers list.
C1_ActiveIsRegistered ==
    activeProvider = Undefined \/ activeProvider \in Range(providers)

\* C2 (as stated): releasing the active provider when it is the only one
\* registered leaves providers empty, the active provider unset and exactly
\* one notification, carrying unset; and whenever providers is empty the
\* active provider is unset.
C2_ReleaseLastUnsets ==
    /\ (ReleasedActive /\ Len(last.pre.providers) = 1) =>
           /\ providers = <<>>
           /\ activeProvider = Undefined
           /\ emitted = <<Undefined>>
    /\ (providers = <<>>) => (activeProvider = Undefined)

\* C3 (as stated): invoking a release handle never raises an error, and
\* neither does register for a non-null provider.
C3_ReleaseNeverThrows ==
    last.op \in {"release", "register"} => last.error = NoError

\* C4: releasing the active provider while another entry remains removes its
\* entry, makes the front of the remaining list the active provider and
\* fires exactly one notification, carrying that provider.
C4_ReleaseActiveElectsFront ==
    (ReleasedActive /\ Len(last.pre.providers) > 1) =>
        /\ last.error = NoError
        /\ providers = Remaining
        /\ activeProvider = providers[1]
        /\ emitted = <<providers[1]>>

\* C4 witness: the active provider was released with two others behind it,
\* and the front of the rest differs from its back.
C4_Witness ==
    /\ ReleasedActive
    /\ Len(last.pre.providers) = 3
    /\ providers[1] # providers[2]
    /\ activeProvider = providers[1]

\* C5: register(p) on an empty list makes p the active provider and fires
\* exactly one notification, carrying p.
C5_FirstRegistrationActivates ==
    (last.op = "register" /\ last.pre.providers = <<>>) =>
        /\ last.error = NoError
        /\ activeProvider = last.provider
        /\ emitted = <<last.provider>>

\* C5 witness: a registration on a list emptied by earlier releases.
C5_Witness ==
    /\ last.op = "register"
    /\ last.pre.providers = <<>>
    /\ last.handle > 1
    /\ activeProvider = last.provider

\* C6: releasing a registered provider that is not the active one removes
\* its entry, leaves the active provider and the context key as they were
\* and fires no notification.
C6_ReleaseInactiveKeepsActive ==
    ReleasedInactive =>
        /\ last.error = NoError
        /\ providers = Remaining
        /\ Len(providers) = Len(last.pre.providers) - 1
        /\ activeProvider = last.pre.activeProvider
        /\ contextKey = last.pre.contextKey
        /\ emitted = <<>>

\* C6 witness: an inactive provider was released while another was active.
C6_Witness ==
    /\ ReleasedInactive
    /\ activeProvider # Undefined
    /\ activeProvider \in Range(providers)
    /\ last.provider \notin Range(providers)

\* C7 (as stated): invoking a handle a second or later time changes nothing,
\* fires nothing and raises nothing.
C7_SecondReleaseIsNoOp ==
    (last.op = "release" /\ last.again) =>
        /\ StateUnchanged
        /\ emitted = <<>>
        /\ last.error = NoError

\* C8: setActive(p) for a provider p that is not in providers fails with
\* the unregistered-provider error, changes nothing and fires nothing.
C8_SetUnregisteredFails ==
    (/\ last.op = "setActive"
     /\ last.provider # Undefined
     /\ last.provider \notin Range(last.pre.providers)) =>
        /\ last.error = UnregisteredProvider
        /\ StateUnchanged
        /\ emitted = <<>>

\* C8 witness: setActive of a released provider while another is registered.
C8_Witness ==
    /\ last.op = "setActive"
    /\ last.error = UnregisteredProvider
    /\ providers # <<>>
    /\ \E h \in 1 .. Len(handles) :
           handles[h].provider = last.provider /\ handles[h].invoked

\* C9: setActive(unset) fails with the invalid-provider error in every
\* state, changes nothing and fires nothing.
C9_SetUnsetFails ==
    (last.op = "setActive" /\ last.provider = Undefined) =>
        /\ last.error = InvalidProvider
        /\ StateUnchanged
        /\ emitted = <<>>

\* C9 witness: setActive(unset) while a provider is active, which stays so.
C9_Witness ==
    /\ last.op = "setActive"
    /\ last.provider = Undefined
    /\ activeProvider # Undefined
    /\ activeProvider \in Range(providers)

\* C10: setActive(p) for p in providers makes p the active provider, sets
\* the context key to p's id and fires exactly one notification carrying p,
\* also when p was already the active provider.
C10_SetRegisteredSucceeds ==
    (last.op = "setActive" /\ last.provider \in Range(last.pre.providers)) =>
        /\ last.error = NoError
        /\ providers = last.pre.providers
        /\ activeProvider = last.provider
        /\ contextKey = ProviderId(last.provider)
        /\ emitted = <<last.provider>>

\* C10 witness: setActive of the provider that was already active.
C10_Witness ==
    /\ last.op = "setActive"
    /\ last.pre.activeProvider = last.provider
    /\ last.provider \in Range(last.pre.providers)
    /\ emitted = <<last.provider>>

\* The providers of the handles never invoked, newest registration first.
RECURSIVE LiveNewestFirst(_)
LiveNewestFirst(n) ==
    IF n = 0 THEN <<>>
    ELSE (IF handles[n].invoked THEN <<>> ELSE <<handles[n].provider>>)
         \o LiveNewestFirst(n - 1)

\* C11 (as stated): providers lists the still-registered providers, that is
\* the providers of the handles not yet invoked, most recently registered
\* first; a release does not reorder the others.
C11_ReverseRegistrationOrder ==
    providers = LiveNewestFirst(Len(handles))

\* C12: the context key is the id of the active provider when one is set
\* and is unset exactly when the active provider is unset.
C12_KeyMirrorsActive ==
    /\ activeProvider # Undefined => contextKey = ProviderId(activeProvider)
    /\ activeProvider = Undefined <=> contextKey = NoKey

\* C12 witness: a release re-elected a provider with another id, and the
\* key followed.
C12_Witness ==
    /\ ReleasedActive
    /\ activeProvider # Undefined
    /\ contextKey = ProviderId(activeProvider)
    /\ contextKey # last.pre.contextKey

\* C14 (as stated): a call that raises an error leaves providers, the
\* active provider and the context key as they were before the call.
C14_FailedCallChangesNothing ==
    last.error # NoError => StateUnchanged

\* C15: register(p) on a non-empty list puts p at the front, leaves the
\* active provider and the context key unchanged and fires nothing.
C15_LaterRegistrationKeepsActive ==
    (last.op = "register" /\ last.pre.providers # <<>>) =>
        /\ last.error = NoError
        /\ providers = <<last.provider>> \o last.pre.providers
        /\ activeProvider = last.pre.activeProvider
        /\ contextKey = last.pre.contextKey
        /\ emitted = <<>>

\* C15 witness: a provider other than the active one was registered second.
C15_Witness ==
    /\ last.op = "register"
    /\ Len(providers) = 2
    /\ providers[1] = last.provider
    /\ providers[2] = activeProvider
    /\ last.provider # activeProvider

\* The handles returned for provider p that were never invoked.
LiveHandles(p) ==
    { h \in 1 .. Len(handles) : handles[h].provider = p /\ ~handles[h].invoked }

\* C19 (as stated): providers has as many entries as there are handles
\* never invoked, and a provider is listed exactly when one of its handles
\* has not been invoked.
C19_OneEntryPerLiveHandle ==
    /\ Len(providers) =
           Cardinality({ h \in 1 .. Len(handles) : ~handles[h].invoked })
    /\ \A p \in Providers : p \in Range(providers) <=> LiveHandles(p) # {}

\* C13: every change of the active provider made by a call comes with
\* exactly one notification, carrying the new value; so after each call the
\* last payload a subscriber present from the start received is the active
\* provider, and nothing was received while none was ever active.
C13_OneNotificationPerChange ==
    /\ activeProvider # last.pre.activeProvider => emitted = <<activeProvider>>
    /\ Len(emitted) <= 1
    /\ lastReceived.any => lastReceived.payload = activeProvider
    /\ ~lastReceived.any => activeProvider = Undefined

\* C13 witness: a release moved the active provider to another one and the
\* subscriber received it.
C13_Witness ==
    /\ ReleasedActive
    /\ activeProvider # last.pre.activeProvider
    /\ lastReceived.any
    /\ lastReceived.payload = activeProvider

\* C18: whenever a listener is called for a notification, the active
\* provider it reads is already the payload and the context key is already
\* the payload's id; the viewlet, reading the active provider in update,
\* lists the payload.
C18_NotifiedAfterUpdate ==
    /\ Len(seen) = Len(emitted)
    /\ \A i \in 1 .. Len(emitted) :
           /\ seen[i].activeProvider = emitted[i]
           /\ seen[i].contextKey = ProviderId(emitted[i])
    /\ (viewlet.phase = "live" /\ emitted # <<>>) =>
           /\ viewlet.updates = Len(emitted)
           /\ viewlet.list = emitted[Len(emitted)]

\* C18 witness: a notification for a change from one provider to another
\* with a different id, processed by the viewlet.
C18_Witness ==
    /\ Len(emitted) = 1
    /\ last.pre.activeProvider # Undefined
    /\ last.pre.activeProvider # emitted[1]
    /\ last.pre.contextKey # ProviderId(emitted[1])
    /\ seen[1].activeProvider = emitted[1]
    /\ viewlet.phase = "live"
    /\ viewlet.list = emitted[1]

\* C16: changing an array obtained from the providers getter changes
\* neither the providers list nor the active provider nor the context key,
\* hence nothing a later call reads.
C16_GetterReturnsCopy ==
    last.op = "mutate" => StateUnchanged

\* C16 witness: a caller changed the array it got while providers were
\* registered, and its array now differs from the registry's list.
C16_Witness ==
    /\ last.op = "mutate"
    /\ providers # <<>>
    /\ returned # providers
    /\ returned # <<>>

\* C17: in every dispatch, the listeners that were subscribed when it began
\* and were not unsubscribed during it are each called exactly once, in
\* subscription order, whoever unsubscribed from inside a callback.
C17_DispatchSkipsNobody ==
    \A i \in 1 .. Len(dispatches) :
        LET d       == dispatches[i]
            kept(l) == l \in Range(d.ended)
        IN  SelectSeq(d.called, kept) = SelectSeq(d.began, kept)

\* C17 witness: three listeners, the first one was unsubscribed from inside
\* a callback, and the two after it were still called, in order.
C17_Witness ==
    /\ Len(dispatches) = 1
    /\ Len(dispatches[1].began) = 3
    /\ dispatches[1].ended = Tail(dispatches[1].began)
    /\ SelectSeq(dispatches[1].called,
                 LAMBDA l : l \in Range(dispatches[1].ended))
           = dispatches[1].ended

\* The one provider subscription the viewlet should hold: to the active
\* provider, none when none is active.
ExpectedSubscriptions ==
    IF activeProvider = Undefined THEN <<>> ELSE <<activeProvider>>

\* While the viewlet is created and not disposed it holds exactly the
\* expected provider subscription, after creation and after every call on
\* the service.
C20_LiveViewletSubscription ==
    viewlet.phase = "live" =>
        /\ Len(viewlet.subscriptions) <= 1
        /\ viewlet.subscriptions = ExpectedSubscriptions
        /\ viewlet.providerChangeDisposable = activeProvider

\* C20 (as stated): after its creation and after every notification it has
\* processed the viewlet holds at most one provider subscription, and it is
\* to the service's active provider; so a change event of a provider that is
\* not the active one never updates the list.
C20_OnlyActiveProviderSubscribed ==
    /\ C20_LiveViewletSubscription
    /\ (last.op = "providerChange" /\ last.provider # activeProvider) =>
           viewlet.updates = 0

\* What the last run of an action should have stored.
FlagOf(action) ==
    IF action = "enable" THEN "true" ELSE "false"

\* C21: a run of the enable or disable action that is confirmed stores
\* 'true' resp. 'false' and then asks for a reload; a run that is declined
\* leaves the stored flag alone and asks for none; either way
\* WizePreview.enabled stays what it was, the value read when the window
\* loaded.
C21_PreviewFlagTakesEffectOnReload ==
    /\ GetEnabled(preview) = (preview.itemAtLoad = "true")
    /\ preview.run.action \in {"enable", "disable"} =>
           /\ GetEnabled(preview) = preview.run.enabled
           /\ preview.run.confirmed =>
                  /\ preview.item = FlagOf(preview.run.action)
                  /\ preview.run.effects = <<"setItem", "reloadWindow">>
                  /\ preview.pending
           /\ ~preview.run.confirmed =>
                  /\ preview.item = preview.run.item
                  /\ preview.run.effects = <<>>
                  /\ preview.pending = preview.run.pending

\* C21 witness: in a reloaded window where the preview is off, the enable
\* action was confirmed: 'true' is stored, a reload is asked for, and
\* enabled is still false.
C21_Witness ==
    /\ preview.loads > 0
    /\ preview.run.action = "enable"
    /\ preview.run.confirmed
    /\ preview.item = "true"
    /\ preview.pending
    /\ ~GetEnabled(preview)

====
